---- MODULE Spec2Model ----
(***************************************************************************)
(* Model of bibtex_creator.py: BibtexCreator.fetch_paper_data,             *)
(* BibtexCreator.crossref_to_bibtex_entry and the driving loop             *)
(* BibtexCreator.create_bibtex_from_dois.                                  *)
(*                                                                         *)
(* Python strings are sequences of one-character strings.  A Python scalar *)
(* is a tagged record (str / None / int) so that str(), truthiness and     *)
(* "verbatim" copies can be told apart.  A Python dict is a function whose *)
(* DOMAIN is the set of keys present ('k' in d  ==  k \in DOMAIN d).       *)
(***************************************************************************)
EXTENDS Integers, Sequences, FiniteSets, TLC

VARIABLES dois, key_prefix, delay, i, pc, paper_data, bibtex_entry,
          bibtex_entries, events

vars == <<dois, key_prefix, delay, i, pc, paper_data, bibtex_entry,
          bibtex_entries, events>>

(***************************************************************************)
(* Bounds of the model.                                                    *)
(***************************************************************************)
MaxDois == 3

MaxDelay == 1

(***************************************************************************)
(* Python values.                                                          *)
(***************************************************************************)
PyStr(s) == [k |-> "str", s |-> s, n |-> 0]

PyNone == [k |-> "none", s |-> <<>>, n |-> 0]

PyInt(n) == [k |-> "int", s |-> <<>>, n |-> n]

EmptyDict == [x \in {} |-> x]

Digits == <<"0", "1", "2", "3", "4", "5", "6", "7", "8", "9">>

RECURSIVE IntToStr(_)
IntToStr(n) ==
  IF n < 10 THEN <<Digits[n + 1]>>
  ELSE IntToStr(n \div 10) \o <<Digits[(n % 10) + 1]>>

S_None == <<"N", "o", "n", "e">>

\* str(v) of a Python scalar
Str(v) ==
  CASE v.k = "str"  -> v.s
    [] v.k = "none" -> S_None
    [] v.k = "int"  -> IntToStr(v.n)

UpperAlpha == <<"A", "B", "C", "D", "E", "F", "G", "H", "I", "J", "K", "L", "M",
                "N", "O", "P", "Q", "R", "S", "T", "U", "V", "W", "X", "Y", "Z">>

LowerAlpha == <<"a", "b", "c", "d", "e", "f", "g", "h", "i", "j", "k", "l", "m",
                "n", "o", "p", "q", "r", "s", "t", "u", "v", "w", "x", "y", "z">>

LowerChar(c) ==
  IF \E x \in 1..Len(UpperAlpha) : UpperAlpha[x] = c
  THEN LowerAlpha[CHOOSE x \in 1..Len(UpperAlpha) : UpperAlpha[x] = c]
  ELSE c

\* s.lower()
Lower(s) == [x \in 1..Len(s) |-> LowerChar(s[x])]

\* p in s  (substring test)
Contains(s, p) ==
  \E x \in 1..(Len(s) - Len(p) + 1) : SubSeq(s, x, x + Len(p) - 1) = p

Whitespace == {" ", "\t", "\n", "\r"}

\* s.strip()
RECURSIVE Strip(_)
Strip(s) ==
  IF Len(s) = 0 THEN s
  ELSE IF s[1] \in Whitespace THEN Strip(Tail(s))
  ELSE IF s[Len(s)] \in Whitespace THEN Strip(SubSeq(s, 1, Len(s) - 1))
  ELSE s

\* sep.join(parts)
RECURSIVE Join(_, _)
Join(sep, parts) ==
  IF Len(parts) = 0 THEN <<>>
  ELSE IF Len(parts) = 1 THEN parts[1]
  ELSE parts[1] \o sep \o Join(sep, Tail(parts))

(***************************************************************************)
(* BibtexCreator.crossref_to_bibtex_entry                                  *)
(***************************************************************************)
S_article == <<"a", "r", "t", "i", "c", "l", "e">>

S_inproceedings == <<"i", "n", "p", "r", "o", "c", "e", "e", "d", "i", "n", "g", "s">>

S_book == <<"b", "o", "o", "k">>

S_conference == <<"c", "o", "n", "f", "e", "r", "e", "n", "c", "e">>

S_proceedings == <<"p", "r", "o", "c", "e", "e", "d", "i", "n", "g", "s">>

S_CommaSpace == <<",", " ">>

S_And == <<" ", "a", "n", "d", " ">>

\* d with key k set to v (entry[k] = v)
Put(d, k, v) == [x \in (DOMAIN d) \cup {k} |-> IF x = k THEN v ELSE d[x]]

\* del d[k]
Del(d, k) == [x \in (DOMAIN d) \ {k} |-> d[x]]

\* one element of the authors list, or <<>> (no element appended)
AuthorParts(author) ==
  IF "family" \in DOMAIN author /\ "given" \in DOMAIN author
  THEN <<Str(author["family"]) \o S_CommaSpace \o Str(author["given"])>>
  ELSE IF "family" \in DOMAIN author THEN <<author["family"].s>>
  ELSE IF "name" \in DOMAIN author THEN <<author["name"].s>>
  ELSE <<>>

RECURSIVE AuthorList(_)
AuthorList(as) ==
  IF Len(as) = 0 THEN <<>> ELSE AuthorParts(as[1]) \o AuthorList(Tail(as))

MapTitle(entry, pd) ==
  IF "title" \in DOMAIN pd /\ Len(pd["title"]) > 0
  THEN Put(entry, "title", pd["title"][1])
  ELSE entry

MapAuthor(entry, pd) ==
  IF "author" \in DOMAIN pd /\ Len(AuthorList(pd["author"])) > 0
  THEN Put(entry, "author", PyStr(Join(S_And, AuthorList(pd["author"]))))
  ELSE entry

MapJournal(entry, pd) ==
  IF "container-title" \in DOMAIN pd /\ Len(pd["container-title"]) > 0
  THEN Put(entry, "journal", pd["container-title"][1])
  ELSE entry

\* the key whose date the year is read from: print if the key is present,
\* else online if that key is present (if / elif on key presence)
YearKey(pd) ==
  IF "published-print" \in DOMAIN pd THEN "published-print"
  ELSE IF "published-online" \in DOMAIN pd THEN "published-online"
  ELSE "none"

\* d.get('date-parts', [[]])
DatePartsOf(d) == IF "date-parts" \in DOMAIN d THEN d["date-parts"] ELSE << <<>> >>

\* .get('date-parts', [[]])[0] raises IndexError on an empty list
YearRaises(pd) ==
  /\ YearKey(pd) # "none"
  /\ Len(DatePartsOf(pd[YearKey(pd)])) = 0

MapYear(entry, pd) ==
  IF YearKey(pd) = "none" THEN entry
  ELSE LET date_parts == DatePartsOf(pd[YearKey(pd)])[1]
       IN  IF Len(date_parts) > 0
           THEN Put(entry, "year", PyStr(Str(date_parts[1])))
           ELSE entry

\* if key in paper_data: entry[field] = str(paper_data[key])
MapStringified(entry, pd, key, field) ==
  IF key \in DOMAIN pd THEN Put(entry, field, PyStr(Str(pd[key]))) ELSE entry

\* if key in paper_data: entry[field] = paper_data[key]
MapVerbatim(entry, pd, key, field) ==
  IF key \in DOMAIN pd THEN Put(entry, field, pd[key]) ELSE entry

MapIssn(entry, pd) ==
  IF "ISSN" \in DOMAIN pd /\ Len(pd["ISSN"]) > 0
  THEN Put(entry, "issn", pd["ISSN"][1])
  ELSE entry

\* paper_data['type'].lower() raises AttributeError when the value is no string
TypeRaises(pd) == "type" \in DOMAIN pd /\ pd["type"].k # "str"

MapType(entry, pd) ==
  IF "type" \notin DOMAIN pd THEN entry
  ELSE LET pub_type == Lower(pd["type"].s)
       IN  IF Contains(pub_type, S_conference) \/ Contains(pub_type, S_proceedings)
           THEN LET e1 == Put(entry, "ENTRYTYPE", PyStr(S_inproceedings))
                IN  IF "container-title" \in DOMAIN pd /\ Len(pd["container-title"]) > 0
                    THEN Del(Put(e1, "booktitle", pd["container-title"][1]), "journal")
                    ELSE e1
           ELSE IF Contains(pub_type, S_book)
           THEN Del(Put(entry, "ENTRYTYPE", PyStr(S_book)), "journal")
           ELSE entry

NewEntry(entry_key) ==
  Put(Put(EmptyDict, "ID", PyStr(entry_key)), "ENTRYTYPE", PyStr(S_article))

\* the statements of the function in source order; used when nothing raises
MapFields(pd, entry_key) ==
  LET e1  == MapTitle(NewEntry(entry_key), pd)
      e2  == MapAuthor(e1, pd)
      e3  == MapJournal(e2, pd)
      e4  == MapYear(e3, pd)
      e5  == MapStringified(e4, pd, "volume", "volume")
      e6  == MapStringified(e5, pd, "issue", "number")
      e7  == MapStringified(e6, pd, "page", "pages")
      e8  == MapVerbatim(e7, pd, "DOI", "doi")
      e9  == MapVerbatim(e8, pd, "URL", "url")
      e10 == MapVerbatim(e9, pd, "abstract", "abstract")
      e11 == MapVerbatim(e10, pd, "publisher", "publisher")
      e12 == MapIssn(e11, pd)
  IN  MapType(e12, pd)

\* the call's outcome: an exception (raised) or the returned dict (entry)
crossref_to_bibtex_entry(pd, entry_key) ==
  IF YearRaises(pd) \/ TypeRaises(pd)
  THEN [raised |-> TRUE, entry |-> EmptyDict]
  ELSE [raised |-> FALSE, entry |-> MapFields(pd, entry_key)]

(***************************************************************************)
(* BibtexCreator.fetch_paper_data                                          *)
(* A response is what session.get / raise_for_status / response.json give: *)
(* a transport failure, a body that is no JSON object, or a JSON object.   *)
(***************************************************************************)
NoData == [none |-> TRUE, rec |-> EmptyDict]

base_url == <<"h", "t", "t", "p", "s", ":", "/", "/", "a", "p", "i", ".", "c", "r", "o", "s", "s", "r", "e", "f", ".", "o", "r", "g", "/", "w", "o", "r", "k", "s", "/">>

S_https_prefix == <<"h", "t", "t", "p", "s", ":", "/", "/", "d", "o", "i", ".", "o", "r", "g", "/">>

S_http_prefix == <<"h", "t", "t", "p", ":", "/", "/", "d", "o", "i", ".", "o", "r", "g", "/">>

\* s.replace(old, '') : every occurrence of old removed, left to right
RECURSIVE Remove(_, _)
Remove(s, old) ==
  IF Len(s) < Len(old) THEN s
  ELSE IF SubSeq(s, 1, Len(old)) = old THEN Remove(SubSeq(s, Len(old) + 1, Len(s)), old)
  ELSE <<s[1]>> \o Remove(Tail(s), old)

\* lines 59-61: the URL of the GET
RequestUrl(doi) == base_url \o Remove(Remove(doi, S_https_prefix), S_http_prefix)

fetch_paper_data(doi, response) ==
  IF response.kind # "json" THEN NoData
  ELSE IF "message" \in DOMAIN response.body
       THEN [none |-> FALSE, rec |-> response.body["message"]]
       ELSE [none |-> FALSE, rec |-> EmptyDict]

\* not paper_data : None and the empty dict are both falsy
Falsy(pd) == pd.none \/ DOMAIN pd.rec = {}

(***************************************************************************)
(* BibtexCreator.create_bibtex_from_dois                                   *)
(***************************************************************************)
\* not doi or not doi.strip()
IsBlank(doi) == Len(doi) = 0 \/ Len(Strip(doi)) = 0

\* f"{n:03d}" : decimal, zero-padded to a minimum width of 3
RECURSIVE ZeroPad(_, _)
ZeroPad(s, width) == IF Len(s) >= width THEN s ELSE ZeroPad(<<"0">> \o s, width)

KeyWidth == 3

\* the key numbered by output position instead of input index
EntryKeyByOutputPosition(prefix, idx) ==
  prefix \o ZeroPad(IntToStr(Len(bibtex_entries) + 1), KeyWidth)

\* f"{key_prefix}{i+1:03d}"
EntryKey(prefix, idx) == prefix \o ZeroPad(IntToStr(idx + 1), KeyWidth)

\* the delay test without the exception for the last index
NeedsDelayAfterLast(idx, n) == idx <= n - 1

\* i < len(dois) - 1
NeedsDelay(idx, n) == idx < n - 1

\* BibDatabase / BibTexWriter.write: the text of one entry, kept as its parts
Serialize(entry) ==
  [entrytype |-> entry["ENTRYTYPE"].s,
   id        |-> entry["ID"].s,
   fields    |-> Del(Del(entry, "ID"), "ENTRYTYPE")]

\* what the caller can tell about a fetch result
Outcome(pd) == IF pd.none THEN "none" ELSE IF DOMAIN pd.rec = {} THEN "empty" ELSE "record"

\* history of the call: "get" = session.get issued for index i (res = what the
\* fetch returned), "append" = bibtex_entries.append for index i,
\* "sleep" = time.sleep(d) after index i; url = the URL of a "get"
Event(op, idx, d, res, url) == [op |-> op, i |-> idx, d |-> d, res |-> res, url |-> url]

(***************************************************************************)
(* Inputs.                                                                 *)
(***************************************************************************)
S_ref == <<"r", "e", "f">>

D_plain == <<"1", "0", ".", "1", "/", "a">>

D_prefixed == S_https_prefix \o D_plain

D_spaces == <<" ", " ">>

DoiValues == {<<>>, D_spaces, D_plain, D_prefixed}

KeyPrefixes == {S_ref, <<"p", "7">>}

V_T == <<"T">>

V_J == <<"J">>

V_doi == <<"1", "0", ".", "1", "/", "x">>

V_issn == <<"1", "2", "3", "4", "-", "5", "6", "7", "8">>

T_journal_article == <<"j", "o", "u", "r", "n", "a", "l", "-", "a", "r", "t", "i", "c", "l", "e">>

T_proceedings_article == <<"p", "r", "o", "c", "e", "e", "d", "i", "n", "g", "s", "-", "a", "r", "t", "i", "c", "l", "e">>

T_Conference_Paper == <<"C", "o", "n", "f", "e", "r", "e", "n", "c", "e", "-", "P", "a", "p", "e", "r">>

T_book_chapter == <<"b", "o", "o", "k", "-", "c", "h", "a", "p", "t", "e", "r">>

\* a key that is missing, or present with one of vals
OptKey(key, vals) == {EmptyDict} \cup {key :> v : v \in vals}

StrLists == {<<>>, <<PyStr(V_T)>>, <<PyStr(<<>>)>>, <<PyStr(V_J), PyStr(V_T)>>}

Authors ==
  {<<>>,
   << [family |-> PyStr(<<"D", "o", "e">>), given |-> PyStr(<<"J">>)] >>,
   << [family |-> PyStr(<<"D", "o", "e">>)] >>,
   << [name |-> PyStr(<<"W", "H", "O">>)] >>,
   << [given |-> PyStr(<<"J">>)] >>,
   << [family |-> PyStr(<<"D", "o", "e">>), given |-> PyStr(<<"J">>)],
      [name |-> PyStr(<<"W", "H", "O">>)] >>}

Types ==
  {PyStr(T_journal_article), PyStr(T_proceedings_article), PyStr(T_Conference_Paper),
   PyStr(T_book_chapter), PyNone}

Dates(y) ==
  {EmptyDict,
   "date-parts" :> <<>>,
   "date-parts" :> << <<>> >>,
   "date-parts" :> << <<PyInt(y)>> >>,
   "date-parts" :> << <<PyInt(y), PyInt(5)>> >>,
   "date-parts" :> << <<PyNone>> >>}

Scalars == {PyStr(<<"1", "2">>), PyStr(<<>>), PyNone, PyInt(7)}

\* records that vary the bibliographic text and the type
TextRecords ==
  {a @@ b @@ c @@ d :
     a \in OptKey("title", StrLists), b \in OptKey("author", Authors),
     c \in OptKey("container-title", StrLists), d \in OptKey("type", Types)}

\* records that vary the two publication dates
DateRecords ==
  {a @@ b @@ c @@ d :
     a \in OptKey("published-print", Dates(2020)),
     b \in OptKey("published-online", Dates(2019)),
     c \in OptKey("container-title", {<<PyStr(V_J)>>}),
     d \in OptKey("type", {PyStr(T_journal_article), PyStr(T_Conference_Paper)})}

\* records that vary the scalar fields
ScalarRecords ==
  {a @@ b @@ c @@ d @@ e @@ f @@ g @@ h :
     a \in OptKey("volume", Scalars), b \in OptKey("issue", {PyInt(7), PyStr(<<>>)}),
     c \in OptKey("page", {PyStr(<<"1", "-", "9">>), PyNone}),
     d \in OptKey("DOI", {PyStr(V_doi), PyStr(<<>>), PyNone}),
     e \in OptKey("URL", {PyStr(V_doi)}), f \in OptKey("abstract", {PyStr(<<>>)}),
     g \in OptKey("publisher", {PyStr(V_T), PyNone}),
     h \in OptKey("ISSN", {<<>>, <<PyStr(V_issn)>>, <<PyStr(<<>>)>>})}

MapRecords == TextRecords \cup DateRecords \cup ScalarRecords

\* registry records a fetch of the batch may return
RecArticle ==
  ("title" :> <<PyStr(V_T)>>) @@ ("container-title" :> <<PyStr(V_J)>>)
  @@ ("published-print" :> ("date-parts" :> << <<PyInt(2020)>> >>))
  @@ ("type" :> PyStr(T_journal_article))

RecConference ==
  ("container-title" :> <<PyStr(V_J)>>) @@ ("type" :> PyStr(T_Conference_Paper))

RecEmptyDateParts == ("title" :> <<PyStr(V_T)>>) @@ ("published-print" :> ("date-parts" :> <<>>))

LoopRecords == {EmptyDict, RecArticle, RecConference, RecEmptyDateParts}

Responses ==
  {[kind |-> "error", body |-> EmptyDict],
   [kind |-> "notjson", body |-> EmptyDict],
   [kind |-> "json", body |-> EmptyDict]}
  \cup {[kind |-> "json", body |-> ("message" :> r)] : r \in LoopRecords}

(***************************************************************************)
(* The batch: one call of create_bibtex_from_dois.                         *)
(* pc: "loop" = at the for statement with index i, "fetched" = after the   *)
(* fetch of line 181, "sleep" = at the time.sleep of line 205, "done" =    *)
(* returned, "raised" = left by an exception.                              *)
(***************************************************************************)
NoEntry == [raised |-> FALSE, entry |-> EmptyDict]

Init ==
  /\ dois \in UNION {[1..m -> DoiValues] : m \in 0..MaxDois}
  /\ key_prefix \in KeyPrefixes
  /\ delay \in 0..MaxDelay
  /\ i = 0
  /\ pc = "loop"
  /\ paper_data = NoData
  /\ bibtex_entry = NoEntry
  /\ bibtex_entries = <<>>
  /\ events = <<>>

\* lines 174-176: empty DOI, continue
SkipBlank ==
  /\ pc = "loop" /\ i < Len(dois) /\ IsBlank(dois[i + 1])
  /\ i' = i + 1
  /\ UNCHANGED <<dois, key_prefix, delay, pc, paper_data, bibtex_entry,
                 bibtex_entries, events>>

\* line 181: paper_data = self.fetch_paper_data(doi)
Fetch ==
  /\ pc = "loop" /\ i < Len(dois) /\ ~IsBlank(dois[i + 1])
  /\ \E r \in Responses : paper_data' = fetch_paper_data(dois[i + 1], r)
  /\ events' = Append(events, Event("get", i, 0, Outcome(paper_data'), RequestUrl(dois[i + 1])))
  /\ pc' = "fetched"
  /\ UNCHANGED <<dois, key_prefix, delay, i, bibtex_entry, bibtex_entries>>

\* lines 182-184: if not paper_data: continue
SkipFailed ==
  /\ pc = "fetched" /\ Falsy(paper_data)
  /\ i' = i + 1
  /\ pc' = "loop"
  /\ UNCHANGED <<dois, key_prefix, delay, paper_data, bibtex_entry,
                 bibtex_entries, events>>

\* lines 186-204: key, mapper, serializer, append, delay test
Convert ==
  /\ pc = "fetched" /\ ~Falsy(paper_data)
  /\ LET r == crossref_to_bibtex_entry(paper_data.rec, EntryKey(key_prefix, i))
     IN  /\ bibtex_entry' = r
         /\ IF r.raised
            THEN /\ pc' = "raised"
                 /\ UNCHANGED <<i, bibtex_entries, events>>
            ELSE /\ bibtex_entries' = Append(bibtex_entries, Serialize(r.entry))
                 /\ events' = Append(events, Event("append", i, 0, "", <<>>))
                 /\ IF NeedsDelay(i, Len(dois))
                    THEN pc' = "sleep" /\ i' = i
                    ELSE pc' = "loop" /\ i' = i + 1
  /\ UNCHANGED <<dois, key_prefix, delay, paper_data>>

\* line 205: time.sleep(self.delay)
Sleep ==
  /\ pc = "sleep"
  /\ events' = Append(events, Event("sleep", i, delay, "", <<>>))
  /\ i' = i + 1
  /\ pc' = "loop"
  /\ UNCHANGED <<dois, key_prefix, delay, paper_data, bibtex_entry, bibtex_entries>>

\* line 207: return bibtex_entries
Return ==
  /\ pc = "loop" /\ i = Len(dois)
  /\ pc' = "done"
  /\ UNCHANGED <<dois, key_prefix, delay, i, paper_data, bibtex_entry,
                 bibtex_entries, events>>

Next == SkipBlank \/ Fetch \/ SkipFailed \/ Convert \/ Sleep \/ Return

Spec == Init /\ [][Next]_vars

(***************************************************************************)
(* The mapper alone: one call of crossref_to_bibtex_entry on any record.   *)
(***************************************************************************)
InitMap ==
  /\ dois = <<>>
  /\ key_prefix \in KeyPrefixes
  /\ delay = 0
  /\ i \in 0..MaxDois
  /\ pc = "map_call"
  /\ paper_data \in {[none |-> FALSE, rec |-> r] : r \in MapRecords}
  /\ bibtex_entry = NoEntry
  /\ bibtex_entries = <<>>
  /\ events = <<>>

MapCall ==
  /\ pc = "map_call"
  /\ bibtex_entry' = crossref_to_bibtex_entry(paper_data.rec, EntryKey(key_prefix, i))
  /\ pc' = IF bibtex_entry'.raised THEN "map_raised" ELSE "map_returned"
  /\ UNCHANGED <<dois, key_prefix, delay, i, paper_data, bibtex_entries, events>>

NextMap == MapCall

SpecMap == InitMap /\ [][NextMap]_vars

(***************************************************************************)
(* Properties.                                                             *)
(***************************************************************************)
IsGet(e) == e.op = "get"

IsAppend(e) == e.op = "append"

IsSleep(e) == e.op = "sleep"

\* positions of the events of one kind for input index idx
At(op, idx) == {p \in 1..Len(events) : events[p].op = op /\ events[p].i = idx}

\* the call is over: it returned, or an exception left it
Ended == pc \in {"done", "raised"}

\* the loop has moved past index idx
Handled(idx) == idx < i

DigitValue(c) == (CHOOSE x \in 1..Len(Digits) : Digits[x] = c) - 1

IsDigits(s) == \A x \in 1..Len(s) : \E y \in 1..Len(Digits) : Digits[y] = s[x]

RECURSIVE DecodeNat(_)
DecodeNat(s) ==
  IF Len(s) = 0 THEN 0
  ELSE 10 * DecodeNat(SubSeq(s, 1, Len(s) - 1)) + DigitValue(s[Len(s)])

\* C1: the batch call never aborts: whatever the fetches return, no exception
\* leaves create_bibtex_from_dois, and when the call is over every DOI has been
\* visited and the (possibly empty) sequence has been returned.
C1_BatchNeverAborts ==
  /\ pc # "raised"
  /\ Ended => (pc = "done" /\ i = Len(dois))

\* C2: a DOI is skipped only when it is blank or its fetch returned None: once
\* the loop has moved past an index, a non-blank DOI whose fetch returned a record (the empty
\* record included) has exactly one entry in the output, any other DOI has
\* none, and the entries are in input order.
C2_OneEntryPerRecord ==
  /\ \A idx \in 0..(Len(dois) - 1) :
       Handled(idx) =>
         IF \E p \in At("get", idx) : events[p].res # "none"
         THEN Cardinality(At("append", idx)) = 1
         ELSE At("append", idx) = {}
  /\ Len(bibtex_entries) = Len(SelectSeq(events, IsAppend))
  /\ \A p, q \in 1..Len(events) :
       (p < q /\ IsAppend(events[p]) /\ IsAppend(events[q])) => events[p].i < events[q].i

\* the entry the mapper returned, and the record it was called on
Returned == pc = "map_returned"

MapperDone == pc \in {"map_returned", "map_raised"}

Fields == {"title", "author", "journal", "booktitle", "year", "volume", "number",
           "pages", "doi", "url", "abstract", "publisher", "issn"}

\* C3: crossref_to_bibtex_entry never fails: on every registry record, whatever
\* is missing, empty or malformed, it returns a citation record holding ID and
\* ENTRYTYPE.
C3_MapperNeverFails ==
  MapperDone =>
    /\ Returned
    /\ {"ID", "ENTRYTYPE"} \subseteq DOMAIN bibtex_entry.entry

\* C6: between any two consecutive fetches (HTTP GETs) of one batch the loop
\* suspends at least once, whatever the outcome of the earlier fetch.
C6_DelayBetweenFetches ==
  \A p, q \in 1..Len(events) :
    (p < q /\ IsGet(events[p]) /\ IsGet(events[q])) =>
      \E r \in (p + 1)..(q - 1) : IsSleep(events[r])

\* C7: no field of a returned citation record is an empty string or a null
\* placeholder (None, or the string form "None" of a null source value).
C7_NoEmptyOrNullField ==
  Returned =>
    \A f \in Fields \cap DOMAIN bibtex_entry.entry :
      /\ bibtex_entry.entry[f].k = "str"
      /\ bibtex_entry.entry[f].s # <<>>
      /\ bibtex_entry.entry[f].s # S_None

\* the value date-parts[0][0] of record key exists
HasYear(pd, key) ==
  /\ key \in DOMAIN pd
  /\ "date-parts" \in DOMAIN pd[key]
  /\ Len(pd[key]["date-parts"]) > 0
  /\ Len(pd[key]["date-parts"][1]) > 0

YearOf(pd, key) == Str(pd[key]["date-parts"][1][1])

\* C8: the year of a returned record is published-print.date-parts[0][0] when
\* that value exists, otherwise published-online.date-parts[0][0] when that
\* value exists, and is absent only when neither exists.
C8_YearPrintElseOnline ==
  Returned =>
    LET pd == paper_data.rec
        e  == bibtex_entry.entry
    IN  IF HasYear(pd, "published-print")
        THEN "year" \in DOMAIN e /\ e["year"].s = YearOf(pd, "published-print")
        ELSE IF HasYear(pd, "published-online")
        THEN "year" \in DOMAIN e /\ e["year"].s = YearOf(pd, "published-online")
        ELSE "year" \notin DOMAIN e

\* the record's type is a string containing "conference", whatever the case
IsConference(pd) ==
  /\ "type" \in DOMAIN pd
  /\ pd["type"].k = "str"
  /\ Contains(Lower(pd["type"].s), S_conference)

\* C9: for every record whose type contains "conference" (case-insensitive) the
\* mapper returns entry type inproceedings, booktitle equal to the first
\* container-title element and no journal; and no returned record holds both
\* journal and booktitle or an entry type other than article, inproceedings,
\* book.
C9_ConferenceIsInproceedings ==
  LET pd == paper_data.rec
      e  == bibtex_entry.entry
  IN  /\ (MapperDone /\ IsConference(pd)) =>
           /\ Returned
           /\ e["ENTRYTYPE"].s = S_inproceedings
           /\ "journal" \notin DOMAIN e
           /\ IF "container-title" \in DOMAIN pd /\ Len(pd["container-title"]) > 0
              THEN "booktitle" \in DOMAIN e /\ e["booktitle"] = pd["container-title"][1]
              ELSE "booktitle" \notin DOMAIN e
      /\ Returned =>
           /\ ~("journal" \in DOMAIN e /\ "booktitle" \in DOMAIN e)
           /\ e["ENTRYTYPE"].s \in {S_article, S_inproceedings, S_book}

\* C10: execution is strictly sequential with no retry: no index is fetched
\* twice, a blank DOI is never fetched, fetches are issued in input order and
\* only for the index the loop is at, and when the call is over exactly one
\* fetch has been issued for each non-blank DOI (none at all, and the empty
\* sequence returned, for an empty input).
C10_OneFetchPerDoiInOrder ==
  /\ \A idx \in 0..(Len(dois) - 1) :
       /\ Cardinality(At("get", idx)) <= 1
       /\ IsBlank(dois[idx + 1]) => At("get", idx) = {}
       /\ (Ended /\ ~IsBlank(dois[idx + 1])) => Cardinality(At("get", idx)) = 1
  /\ \A p, q \in 1..Len(events) : p < q => events[p].i <= events[q].i
  /\ \A p \in 1..Len(events) : events[p].i <= i
  /\ (Ended /\ Len(dois) = 0) => (pc = "done" /\ events = <<>> /\ bibtex_entries = <<>>)

\* the input indices of the output entries, in output order
AppendedIdx == [p \in 1..Len(SelectSeq(events, IsAppend)) |-> SelectSeq(events, IsAppend)[p].i]

\* C4: key numbering follows the input index: the entry produced for the DOI at
\* 0-based input index idx carries key_prefix followed by idx+1 in decimal,
\* zero-padded to at least 3 digits and never truncated, so skipped DOIs do not
\* shift the numbers and no two entries of a batch share a key.
C4_KeyFromInputIndex ==
  /\ Len(bibtex_entries) = Len(AppendedIdx)
  /\ \A p \in 1..Len(bibtex_entries) :
       LET id  == bibtex_entries[p].id
           num == SubSeq(id, Len(key_prefix) + 1, Len(id))
       IN  /\ SubSeq(id, 1, Len(key_prefix)) = key_prefix
           /\ Len(num) >= 3
           /\ IsDigits(num)
           /\ DecodeNat(num) = AppendedIdx[p] + 1
           /\ Len(num) > 3 => num[1] # "0"
  /\ \A p, q \in 1..Len(bibtex_entries) :
       p # q => bibtex_entries[p].id # bibtex_entries[q].id

\* a finished batch with two entries, one of them produced after a skipped DOI
C4_Witness ==
  /\ pc = "done"
  /\ Len(bibtex_entries) >= 2
  /\ \E p \in 1..Len(bibtex_entries) : AppendedIdx[p] # p - 1

ConferenceMappingWhenReturned ==
  LET pd == paper_data.rec
      e  == bibtex_entry.entry
  IN  (Returned /\ IsConference(pd)) =>
        /\ e["ENTRYTYPE"].s = S_inproceedings
        /\ "journal" \notin DOMAIN e
        /\ IF "container-title" \in DOMAIN pd /\ Len(pd["container-title"]) > 0
           THEN "booktitle" \in DOMAIN e /\ e["booktitle"] = pd["container-title"][1]
           ELSE "booktitle" \notin DOMAIN e

\* What is left of C10 on the calls that return: one fetch per non-blank DOI.
OneFetchPerDoiWhenReturned ==
  pc = "done" =>
    \A idx \in 0..(Len(dois) - 1) :
      Cardinality(At("get", idx)) = IF IsBlank(dois[idx + 1]) THEN 0 ELSE 1

====
